---- MODULE Spec2Model ----
(***************************************************************************)
(* A model of git.py: two repositories on disk (local, cloud), each with   *)
(* an object store, a staging index (index.json), a branch store           *)
(* (branches.json) and a HEAD file, and the operations init, add, commit,  *)
(* push, create_branch and switch_branch.                                  *)
(*                                                                         *)
(* Strings that the code parses (branch names, the HEAD line) are          *)
(* sequences of atoms: an atom is either a separator character ("/", " ",  *)
(* "\n") or a maximal run of other characters ("main", "refs", ...).       *)
(* Python dicts that are serialized (the index) are sequences of           *)
(* <<key, value>> pairs in insertion order.  SHA-1 is modelled as          *)
(* collision free: a digest is the hashed header itself.                   *)
(***************************************************************************)
EXTENDS Integers, Sequences, FiniteSets, TLC

\* ---------------------------------------------------------------- bounds
MaxTime == 1          \* the clock takes the values 0..MaxTime
MaxLen == 2           \* commit is explored while the active list is shorter

\* ---------------------------------------------------------------- inputs
LOCAL_REPO == "local"
CLOUD_REPO == "cloud"
Repos == {LOCAL_REPO, CLOUD_REPO}

main == <<"main">>
dev == <<"dev">>
Names == {main, dev}                              \* plain branch names
OddNames == {main, <<"dev", " ">>, <<"f", "/", "main">>}
                                                  \* "main", "dev ", "f/main"
Paths == {"a.txt", "b.txt"}
Contents == {<<"hello">>}   \* file contents, as byte strings
\* what the working-tree files may hold when add reads them
Files == {<<"a.txt", <<"hello">>>>, <<"a.txt", <<"world">>>>,
          <<"b.txt", <<"hello">>>>}
Messages == {"first"}
Procs == {1, 2}       \* two processes working on the same repository
ProcMessages == {"first", "second"}
NoFile == <<>>        \* stands for: the working-tree file of an add is missing

\* ------------------------------------------------------------- variables
VARIABLES fs,        \* fs[r]: the entries of repository r that exist on disk
          HEAD,      \* HEAD[r]: content of r/.git/HEAD (atoms)
          branches,  \* branches[r]: content of r/.git/branches.json
          index,     \* index[r]: content of r/.git/index.json
          objects,   \* objects[r]: digests stored under r/.git/objects
          now,       \* the wall clock, int(time.time())
          out,       \* what the last call printed or raised
          procs      \* procs[p]: the locals of a commit that process p is
                     \* running concurrently with another process

vars == <<fs, HEAD, branches, index, objects, now, out, procs>>

Range(s) == {s[i] : i \in 1..Len(s)}

Whitespace == {" ", "\n"}

RECURSIVE lstrip(_)
lstrip(s) == IF s = <<>> THEN s
             ELSE IF Head(s) \in Whitespace THEN lstrip(Tail(s)) ELSE s

RECURSIVE rstrip(_)
rstrip(s) == IF s = <<>> THEN s
             ELSE IF s[Len(s)] \in Whitespace
                  THEN rstrip(SubSeq(s, 1, Len(s) - 1)) ELSE s

strip(s) == rstrip(lstrip(s))

\* s.split('/')[-1]
split_last(s) ==
    LET seps == {i \in 1..Len(s) : s[i] = "/"}
        last == IF seps = {} THEN 0
                ELSE CHOOSE i \in seps : \A j \in seps : j <= i
    IN  SubSeq(s, last + 1, Len(s))

\* f'ref: refs/heads/{branch_name}\n'
head_line(branch_name) ==
    <<"ref:", " ", "refs", "/", "heads", "/">> \o branch_name \o <<"\n">>

\* get_current_branch on the content of the HEAD file
get_current_branch(r) == split_last(strip(HEAD[r]))

\* the repository structure that init and init_cloud create
RepoStructure == {"dir", ".git", "HEAD", "branches.json"}

\* sha1 of the header 'blob <len>\0' + data
hash_object(data) == <<"blob", data>>

\* an assignment that drops the entries the dict had
dict_set_only(d, k, v) == <<<<k, v>>>>

\* index[file_path] = sha1 on an insertion-ordered dict
RECURSIVE dict_set(_, _, _)
dict_set(d, k, v) ==
    IF d = <<>> THEN <<<<k, v>>>>
    ELSE IF Head(d)[1] = k THEN <<<<k, v>>>> \o Tail(d)
         ELSE <<Head(d)>> \o dict_set(Tail(d), k, v)

\* json.dumps(commit_data): the keys in insertion order
commit_data(message, timestamp, files) ==
    <<"message", message, "timestamp", timestamp, "files", files>>

\* extend without the membership test
extend_all(remote, commits) == remote \o commits

\* extend with the filter evaluated against the list as it was before
extend_eager(remote, commits) ==
    remote \o SelectSeq(commits, LAMBDA x : x \notin Range(remote))

\* the lazily filtered extend of push: an entry is appended unless the list,
\* as grown so far, already holds it
RECURSIVE extend_new(_, _)
extend_new(remote, commits) ==
    IF commits = <<>> THEN remote
    ELSE IF Head(commits) \in Range(remote)
         THEN extend_new(remote, Tail(commits))
         ELSE extend_new(Append(remote, Head(commits)), Tail(commits))

Result(op, r, arg, res) == [op |-> op, repo |-> r, arg |-> arg, res |-> res]

\* a process that is not inside commit
Idle == [pc |-> "idle", message |-> "", sha1 |-> <<>>, branches |-> <<>>,
         current_branch |-> <<>>]

Init ==
    /\ fs = [r \in Repos |-> {}]
    /\ HEAD = [r \in Repos |-> <<>>]
    /\ branches = [r \in Repos |-> <<>>]
    /\ index = [r \in Repos |-> <<>>]
    /\ objects = [r \in Repos |-> {}]
    /\ now = 0
    /\ out = Result("start", LOCAL_REPO, "", "")
    /\ procs = [p \in Procs |-> Idle]

\* init that writes the fresh structure whether or not .git exists
init_always(r) ==
    /\ fs' = [fs EXCEPT ![r] = @ \cup RepoStructure]
    /\ HEAD' = [HEAD EXCEPT ![r] = head_line(main)]
    /\ branches' = [branches EXCEPT ![r] = (main :> <<>>)]
    /\ out' = Result("init", r, "", "Initialized")
    /\ UNCHANGED <<index, objects, now, procs>>

init(r) ==
    /\ IF ".git" \notin fs[r]
       THEN /\ fs' = [fs EXCEPT ![r] = @ \cup RepoStructure]
            /\ HEAD' = [HEAD EXCEPT ![r] = head_line(main)]
            /\ branches' = [branches EXCEPT ![r] = (main :> <<>>)]
            /\ out' = Result("init", r, "", "Initialized")
       ELSE /\ UNCHANGED <<fs, HEAD, branches>>
            /\ out' = Result("init", r, "", "already exists")
    /\ UNCHANGED <<index, objects, now, procs>>

\* add that records the digest in the index without storing the object
add_no_store(file_path, data, r) ==
    /\ IF data = NoFile
       THEN /\ UNCHANGED <<fs, index, objects>>
            /\ out' = Result("add", r, file_path, "FileNotFoundError")
       ELSE LET sha1 == hash_object(data)
                old == IF "index.json" \in fs[r] THEN index[r] ELSE <<>>
            IN  /\ UNCHANGED objects
                /\ index' = [index EXCEPT ![r] = dict_set(old, file_path, sha1)]
                /\ fs' = [fs EXCEPT ![r] = @ \cup {"dir", ".git", "index.json"}]
                /\ out' = Result("add", r, file_path, "Added")
    /\ UNCHANGED <<HEAD, branches, now, procs>>

\* add whose object write empties the objects directory first
add_replace_store(file_path, data, r) ==
    /\ IF data = NoFile
       THEN /\ UNCHANGED <<fs, index, objects>>
            /\ out' = Result("add", r, file_path, "FileNotFoundError")
       ELSE LET sha1 == hash_object(data)
                old == IF "index.json" \in fs[r] THEN index[r] ELSE <<>>
            IN  /\ objects' = [objects EXCEPT ![r] = {sha1}]
                /\ index' = [index EXCEPT ![r] = dict_set(old, file_path, sha1)]
                /\ fs' = [fs EXCEPT ![r] = @ \cup {"dir", ".git", "index.json"}]
                /\ out' = Result("add", r, file_path, "Added")
    /\ UNCHANGED <<HEAD, branches, now, procs>>

\* add(file_path, repo); data is what open(file_path).read() returns
add(file_path, data, r) ==
    /\ IF data = NoFile
       THEN /\ UNCHANGED <<fs, index, objects>>
            /\ out' = Result("add", r, file_path, "FileNotFoundError")
       ELSE LET sha1 == hash_object(data)
                old == IF "index.json" \in fs[r] THEN index[r] ELSE <<>>
            IN  /\ objects' = [objects EXCEPT ![r] = @ \cup {sha1}]
                /\ index' = [index EXCEPT ![r] = dict_set(old, file_path, sha1)]
                /\ fs' = [fs EXCEPT ![r] = @ \cup {"dir", ".git", "index.json"}]
                /\ out' = Result("add", r, file_path, "Added")
    /\ UNCHANGED <<HEAD, branches, now, procs>>

\* commit that takes a missing index.json for an empty index
commit_empty_index(message, r) ==
    LET files == IF "index.json" \in fs[r] THEN index[r] ELSE <<>>
        sha1 == hash_object(commit_data(message, now, files))
        current_branch == get_current_branch(r)
    IN  /\ objects' = [objects EXCEPT ![r] = @ \cup {sha1}]
        /\ IF "branches.json" \notin fs[r] \/ "HEAD" \notin fs[r]
           THEN /\ UNCHANGED branches
                /\ out' = Result("commit", r, message, "FileNotFoundError")
           ELSE IF current_branch \notin DOMAIN branches[r]
           THEN /\ UNCHANGED branches
                /\ out' = Result("commit", r, message, "KeyError")
           ELSE /\ Len(branches[r][current_branch]) < MaxLen
                /\ branches' = [branches EXCEPT ![r][current_branch] =
                                    Append(@, sha1)]
                /\ out' = Result("commit", r, message, "Committed")
        /\ UNCHANGED <<fs, HEAD, index, now, procs>>

\* commit that starts the active branch's list over with the new digest
commit_reset(message, r) ==
    /\ IF "index.json" \notin fs[r]
       THEN /\ UNCHANGED <<objects, branches>>
            /\ out' = Result("commit", r, message, "No changes to commit")
       ELSE LET sha1 == hash_object(commit_data(message, now, index[r]))
                current_branch == get_current_branch(r)
            IN  /\ objects' = [objects EXCEPT ![r] = @ \cup {sha1}]
                /\ IF "branches.json" \notin fs[r] \/ "HEAD" \notin fs[r]
                   THEN /\ UNCHANGED branches
                        /\ out' = Result("commit", r, message, "FileNotFoundError")
                   ELSE IF current_branch \notin DOMAIN branches[r]
                   THEN /\ UNCHANGED branches
                        /\ out' = Result("commit", r, message, "KeyError")
                   ELSE /\ Len(branches[r][current_branch]) < MaxLen
                        /\ branches' = [branches EXCEPT ![r][current_branch] =
                                            <<sha1>>]
                        /\ out' = Result("commit", r, message, "Committed")
    /\ UNCHANGED <<fs, HEAD, index, now, procs>>

\* commit that appends to main whatever HEAD says
commit_to_main(message, r) ==
    /\ IF "index.json" \notin fs[r]
       THEN /\ UNCHANGED <<objects, branches>>
            /\ out' = Result("commit", r, message, "No changes to commit")
       ELSE LET sha1 == hash_object(commit_data(message, now, index[r]))
            IN  /\ objects' = [objects EXCEPT ![r] = @ \cup {sha1}]
                /\ IF "branches.json" \notin fs[r] \/ "HEAD" \notin fs[r]
                   THEN /\ UNCHANGED branches
                        /\ out' = Result("commit", r, message, "FileNotFoundError")
                   ELSE /\ Len(branches[r][main]) < MaxLen
                        /\ branches' = [branches EXCEPT ![r][main] =
                                            Append(@, sha1)]
                        /\ out' = Result("commit", r, message, "Committed")
    /\ UNCHANGED <<fs, HEAD, index, now, procs>>

\* commit that creates the branch HEAD names when it is missing
\* (branches.setdefault(current_branch, []).append(sha1))
commit_setdefault(message, r) ==
    /\ IF "index.json" \notin fs[r]
       THEN /\ UNCHANGED <<objects, branches>>
            /\ out' = Result("commit", r, message, "No changes to commit")
       ELSE LET sha1 == hash_object(commit_data(message, now, index[r]))
                current_branch == get_current_branch(r)
                old == IF current_branch \in DOMAIN branches[r]
                       THEN branches[r][current_branch] ELSE <<>>
            IN  /\ objects' = [objects EXCEPT ![r] = @ \cup {sha1}]
                /\ IF "branches.json" \notin fs[r] \/ "HEAD" \notin fs[r]
                   THEN /\ UNCHANGED branches
                        /\ out' = Result("commit", r, message, "FileNotFoundError")
                   ELSE /\ Len(old) < MaxLen
                        /\ branches' = [branches EXCEPT ![r] =
                               [b \in DOMAIN @ \cup {current_branch} |->
                                   IF b = current_branch THEN Append(old, sha1)
                                   ELSE @[b]]]
                        /\ out' = Result("commit", r, message, "Committed")
    /\ UNCHANGED <<fs, HEAD, index, now, procs>>

commit(message, r) ==
    /\ IF "index.json" \notin fs[r]
       THEN /\ UNCHANGED <<objects, branches>>
            /\ out' = Result("commit", r, message, "No changes to commit")
       ELSE LET sha1 == hash_object(commit_data(message, now, index[r]))
                current_branch == get_current_branch(r)
            IN  /\ objects' = [objects EXCEPT ![r] = @ \cup {sha1}]
                /\ IF "branches.json" \notin fs[r] \/ "HEAD" \notin fs[r]
                   THEN /\ UNCHANGED branches
                        /\ out' = Result("commit", r, message, "FileNotFoundError")
                   ELSE IF current_branch \notin DOMAIN branches[r]
                   THEN /\ UNCHANGED branches
                        /\ out' = Result("commit", r, message, "KeyError")
                   ELSE /\ Len(branches[r][current_branch]) < MaxLen
                        /\ branches' = [branches EXCEPT ![r][current_branch] =
                                            Append(@, sha1)]
                        /\ out' = Result("commit", r, message, "Committed")
    /\ UNCHANGED <<fs, HEAD, index, now, procs>>

\* init_cloud writing an empty branches.json
init_cloud_no_main(r) ==
    IF "dir" \notin fs[r]
    THEN [fs |-> fs[r] \cup RepoStructure, HEAD |-> head_line(main),
          branches |-> <<>>]
    ELSE [fs |-> fs[r], HEAD |-> HEAD[r], branches |-> branches[r]]

\* the part of the cloud repository that init_cloud leaves behind
init_cloud(r) ==
    IF "dir" \notin fs[r]
    THEN [fs |-> fs[r] \cup RepoStructure, HEAD |-> head_line(main),
          branches |-> (main :> <<>>)]
    ELSE [fs |-> fs[r], HEAD |-> HEAD[r], branches |-> branches[r]]

\* a loop that builds the cloud mapping from the local branches alone
merge_local_only(local_branches, cloud_branches) ==
    [b \in DOMAIN local_branches |->
        IF b \in DOMAIN cloud_branches
        THEN extend_new(cloud_branches[b], local_branches[b])
        ELSE local_branches[b]]

\* the loop of push over local_branches.items()
merge_branches(local_branches, cloud_branches) ==
    [b \in DOMAIN local_branches \cup DOMAIN cloud_branches |->
        IF b \notin DOMAIN local_branches THEN cloud_branches[b]
        ELSE IF b \in DOMAIN cloud_branches
             THEN extend_new(cloud_branches[b], local_branches[b])
             ELSE local_branches[b]]

\* push that also copies the local objects to the cloud
push_with_objects(local_repo, cloud_repo) ==
    LET c == init_cloud(cloud_repo)
        cloud_branches == IF "branches.json" \in c.fs THEN c.branches ELSE <<>>
    IN  /\ HEAD' = [HEAD EXCEPT ![cloud_repo] = c.HEAD]
        /\ IF "branches.json" \notin fs[local_repo] \/ ".git" \notin c.fs
           THEN /\ fs' = [fs EXCEPT ![cloud_repo] = c.fs]
                /\ branches' = [branches EXCEPT ![cloud_repo] = c.branches]
                /\ UNCHANGED objects
                /\ out' = Result("push", cloud_repo, "", "FileNotFoundError")
           ELSE /\ fs' = [fs EXCEPT ![cloud_repo] = c.fs \cup {"branches.json"}]
                /\ branches' = [branches EXCEPT ![cloud_repo] =
                       merge_branches(branches[local_repo], cloud_branches)]
                /\ objects' = [objects EXCEPT ![cloud_repo] =
                                  @ \cup objects[local_repo]]
                /\ out' = Result("push", cloud_repo, "", "Pushed")
        /\ UNCHANGED <<index, now, procs>>

push(local_repo, cloud_repo) ==
    LET c == init_cloud(cloud_repo)
        cloud_branches == IF "branches.json" \in c.fs THEN c.branches ELSE <<>>
    IN  /\ HEAD' = [HEAD EXCEPT ![cloud_repo] = c.HEAD]
        /\ IF "branches.json" \notin fs[local_repo] \/ ".git" \notin c.fs
           THEN /\ fs' = [fs EXCEPT ![cloud_repo] = c.fs]
                /\ branches' = [branches EXCEPT ![cloud_repo] = c.branches]
                /\ out' = Result("push", cloud_repo, "", "FileNotFoundError")
           ELSE /\ fs' = [fs EXCEPT ![cloud_repo] = c.fs \cup {"branches.json"}]
                /\ branches' = [branches EXCEPT ![cloud_repo] =
                       merge_branches(branches[local_repo], cloud_branches)]
                /\ out' = Result("push", cloud_repo, "", "Pushed")
        /\ UNCHANGED <<index, objects, now, procs>>

\* create_branch that starts the new branch with an empty history
create_branch_empty(branch_name, r) ==
    /\ IF "branches.json" \notin fs[r] \/ "HEAD" \notin fs[r]
       THEN /\ UNCHANGED branches
            /\ out' = Result("create_branch", r, branch_name, "FileNotFoundError")
       ELSE IF get_current_branch(r) \notin DOMAIN branches[r]
       THEN /\ UNCHANGED branches
            /\ out' = Result("create_branch", r, branch_name, "KeyError")
       ELSE /\ branches' = [branches EXCEPT ![r] =
                   [b \in DOMAIN @ \cup {branch_name} |->
                       IF b = branch_name THEN <<>> ELSE @[b]]]
            /\ out' = Result("create_branch", r, branch_name, "Created")
    /\ UNCHANGED <<fs, HEAD, index, objects, now, procs>>

create_branch(branch_name, r) ==
    /\ IF "branches.json" \notin fs[r] \/ "HEAD" \notin fs[r]
       THEN /\ UNCHANGED branches
            /\ out' = Result("create_branch", r, branch_name, "FileNotFoundError")
       ELSE IF get_current_branch(r) \notin DOMAIN branches[r]
       THEN /\ UNCHANGED branches
            /\ out' = Result("create_branch", r, branch_name, "KeyError")
       ELSE /\ branches' = [branches EXCEPT ![r] =
                   [b \in DOMAIN @ \cup {branch_name} |->
                       IF b = branch_name THEN @[get_current_branch(r)]
                       ELSE @[b]]]
            /\ out' = Result("create_branch", r, branch_name, "Created")
    /\ UNCHANGED <<fs, HEAD, index, objects, now, procs>>

switch_branch(branch_name, r) ==
    /\ IF "branches.json" \notin fs[r]
       THEN /\ UNCHANGED <<fs, HEAD>>
            /\ out' = Result("switch_branch", r, branch_name, "FileNotFoundError")
       ELSE IF branch_name \notin DOMAIN branches[r]
       THEN /\ UNCHANGED <<fs, HEAD>>
            /\ out' = Result("switch_branch", r, branch_name, "does not exist")
       ELSE /\ HEAD' = [HEAD EXCEPT ![r] = head_line(branch_name)]
            /\ fs' = [fs EXCEPT ![r] = @ \cup {"HEAD"}]
            /\ out' = Result("switch_branch", r, branch_name, "Switched")
    /\ UNCHANGED <<branches, index, objects, now, procs>>

\* time passes between two calls
Tick ==
    /\ now < MaxTime
    /\ now' = now + 1
    /\ UNCHANGED <<fs, HEAD, branches, index, objects, out, procs>>

\* the directory of r is made outside the program, with nothing in it: the
\* state in which os.path.exists(repo) holds and repo/.git does not
mkdir(r) ==
    /\ "dir" \notin fs[r]
    /\ fs' = [fs EXCEPT ![r] = @ \cup {"dir"}]
    /\ UNCHANGED <<HEAD, branches, index, objects, now, out, procs>>

\* commit(message, LOCAL_REPO) run by process p, up to the point where the
\* commit record is stored: no file of the Branch Store has been read yet
commit_begin(p, message) ==
    /\ procs[p].pc \in {"idle", "done"}
    /\ IF "index.json" \notin fs[LOCAL_REPO]
       THEN /\ UNCHANGED objects
            /\ procs' = [procs EXCEPT ![p] = Idle]
            /\ out' = Result("commit", LOCAL_REPO, message, "No changes to commit")
       ELSE LET sha1 == hash_object(commit_data(message, now, index[LOCAL_REPO]))
            IN  /\ objects' = [objects EXCEPT ![LOCAL_REPO] = @ \cup {sha1}]
                /\ procs' = [procs EXCEPT ![p] =
                       [Idle EXCEPT !.pc = "hashed", !.message = message,
                                    !.sha1 = sha1]]
                /\ UNCHANGED out
    /\ UNCHANGED <<fs, HEAD, branches, index, now>>

\* process p loads branches.json and resolves HEAD
commit_read(p) ==
    /\ procs[p].pc = "hashed"
    /\ IF "branches.json" \notin fs[LOCAL_REPO] \/ "HEAD" \notin fs[LOCAL_REPO]
       THEN /\ procs' = [procs EXCEPT ![p] = Idle]
            /\ out' = Result("commit", LOCAL_REPO, procs[p].message,
                             "FileNotFoundError")
       ELSE /\ procs' = [procs EXCEPT ![p].pc = "read",
                                      ![p].branches = branches[LOCAL_REPO],
                                      ![p].current_branch =
                                          get_current_branch(LOCAL_REPO)]
            /\ UNCHANGED out
    /\ UNCHANGED <<fs, HEAD, branches, index, objects, now>>

\* a write that loads branches.json again and appends to what it holds now
commit_write_reload(p) ==
    /\ procs[p].pc = "read"
    /\ IF procs[p].current_branch \notin DOMAIN procs[p].branches
       THEN /\ UNCHANGED branches
            /\ procs' = [procs EXCEPT ![p] = Idle]
            /\ out' = Result("commit", LOCAL_REPO, procs[p].message, "KeyError")
       ELSE /\ Len(branches[LOCAL_REPO][procs[p].current_branch]) < MaxLen
            /\ branches' = [branches EXCEPT
                   ![LOCAL_REPO][procs[p].current_branch] =
                       Append(@, procs[p].sha1)]
            /\ procs' = [procs EXCEPT ![p].pc = "done"]
            /\ out' = Result("commit", LOCAL_REPO, procs[p].message, "Committed")
    /\ UNCHANGED <<fs, HEAD, index, objects, now>>

\* process p appends its digest to the list it loaded and writes the whole
\* mapping it loaded back to branches.json
commit_write(p) ==
    /\ procs[p].pc = "read"
    /\ IF procs[p].current_branch \notin DOMAIN procs[p].branches
       THEN /\ UNCHANGED branches
            /\ procs' = [procs EXCEPT ![p] = Idle]
            /\ out' = Result("commit", LOCAL_REPO, procs[p].message, "KeyError")
       ELSE /\ Len(procs[p].branches[procs[p].current_branch]) < MaxLen
            /\ branches' = [branches EXCEPT ![LOCAL_REPO] =
                   [procs[p].branches EXCEPT ![procs[p].current_branch] =
                       Append(@, procs[p].sha1)]]
            /\ procs' = [procs EXCEPT ![p].pc = "done"]
            /\ out' = Result("commit", LOCAL_REPO, procs[p].message, "Committed")
    /\ UNCHANGED <<fs, HEAD, index, objects, now>>

\* the calls main() dispatches: every operation but init acts on LOCAL_REPO,
\* push goes from LOCAL_REPO to CLOUD_REPO
Next ==
    \/ \E r \in Repos : init(r)
    \/ \E d \in Contents \cup {NoFile} : add("a.txt", d, LOCAL_REPO)
    \/ \E m \in Messages : commit(m, LOCAL_REPO)
    \/ push(LOCAL_REPO, CLOUD_REPO)
    \/ \E n \in Names : create_branch(n, LOCAL_REPO)
    \/ \E n \in Names : switch_branch(n, LOCAL_REPO)
    \/ Tick

Spec == Init /\ [][Next]_vars

\* the same calls with branch names that hold separators of the HEAD line
NextNames ==
    \/ \E r \in Repos : init(r)
    \/ \E d \in Contents \cup {NoFile} : add("a.txt", d, LOCAL_REPO)
    \/ \E m \in Messages : commit(m, LOCAL_REPO)
    \/ push(LOCAL_REPO, CLOUD_REPO)
    \/ \E n \in OddNames : create_branch(n, LOCAL_REPO)
    \/ \E n \in OddNames : switch_branch(n, LOCAL_REPO)

SpecNames == Init /\ [][NextNames]_vars

\* init, add and commit on LOCAL_REPO, with several paths and a file whose
\* content changes
NextIndex ==
    \/ init(LOCAL_REPO)
    \/ \E f \in Files : add(f[1], f[2], LOCAL_REPO)
    \/ \E m \in Messages : commit(m, LOCAL_REPO)
    \/ Tick

SpecIndex == Init /\ [][NextIndex]_vars

\* init, add and commit called as functions on either repository, with
\* several paths
NextLib ==
    \/ \E r \in Repos : init(r)
    \/ \E r \in Repos, p \in Paths, d \in Contents : add(p, d, r)
    \/ \E r \in Repos, m \in Messages : commit(m, r)
    \/ Tick

SpecLib == Init /\ [][NextLib]_vars

\* two repositories that are both worked on (init, add, commit and
\* create_branch called on either), push between them, and a cloud directory
\* that may have been made by hand
NextSync ==
    \/ \E r \in Repos : init(r)
    \/ \E r \in Repos, d \in Contents : add("a.txt", d, r)
    \/ \E r \in Repos, m \in Messages : commit(m, r)
    \/ push(LOCAL_REPO, CLOUD_REPO)
    \/ \E r \in Repos : create_branch(dev, r)
    \/ mkdir(CLOUD_REPO)
    \/ Tick

SpecSync == Init /\ [][NextSync]_vars

\* two processes that run commit on LOCAL_REPO at the same time; the steps
\* of a commit are its accesses to the files of the repository
NextRace ==
    \/ init(LOCAL_REPO)
    \/ \E d \in Contents : add("a.txt", d, LOCAL_REPO)
    \/ \E p \in Procs, m \in ProcMessages : commit_begin(p, m)
    \/ \E p \in Procs : commit_read(p)
    \/ \E p \in Procs : commit_write(p)

SpecRace == Init /\ [][NextRace]_vars

\* ------------------------------------------------------------ properties
\* the step just taken was a call of op that ended with res
Did(op, res) == now' = now /\ out'.op = op /\ out'.res = res

HasBranches(r) == "branches.json" \in fs[r]

HasRepeat(s) == \E i, j \in 1..Len(s) : i < j /\ s[i] = s[j]

\* the entries of s that are not in S, in order
NotIn(s, S) == SelectSeq(s, LAMBDA x : x \notin S)

\* s with every entry but the first of each value removed
RECURSIVE FirstOccurrences(_)
FirstOccurrences(s) ==
    IF s = <<>> THEN <<>>
    ELSE LET front == SubSeq(s, 1, Len(s) - 1)
         IN  IF s[Len(s)] \in Range(front) THEN FirstOccurrences(front)
             ELSE Append(FirstOccurrences(front), s[Len(s)])

\* C1: a push that directly follows a push (no call in between) leaves the
\* cloud branch-name -> digest-list mapping as the first push left it.
C1_PushIdempotent ==
    [][(out.op = "push" /\ out'.op = "push")
         => branches'[CLOUD_REPO] = branches[CLOUD_REPO]]_vars

\* a push has completed with a local branch that repeats a digest and with
\* two branches in the cloud: the next push starts from here
C1_Witness ==
    /\ out.op = "push" /\ out.res = "Pushed"
    /\ DOMAIN branches[CLOUD_REPO] = {main, dev}
    /\ HasRepeat(branches[LOCAL_REPO][main])
    /\ Len(branches[CLOUD_REPO][main]) >= 2
    /\ branches[CLOUD_REPO][dev] # <<>>

\* C2 as stated: for a branch present locally and remotely before push, the
\* remote list afterwards is the old remote list followed by every local
\* entry whose digest is not in the old remote list.
C2_EveryNewEntry ==
    [][Did("push", "Pushed") =>
         \A b \in DOMAIN branches[LOCAL_REPO] :
            (HasBranches(CLOUD_REPO) /\ b \in DOMAIN branches[CLOUD_REPO]) =>
               branches'[CLOUD_REPO][b] =
                   branches[CLOUD_REPO][b] \o
                   NotIn(branches[LOCAL_REPO][b],
                         Range(branches[CLOUD_REPO][b]))]_vars

\* C2 amended: for a branch present locally and remotely before push, the
\* remote list afterwards is the old remote list followed by the first
\* occurrence of each local digest that is not in the old remote list, in
\* local order; no old remote entry is removed or reordered.
C2_FirstNewEntries ==
    [][Did("push", "Pushed") =>
         \A b \in DOMAIN branches[LOCAL_REPO] :
            (HasBranches(CLOUD_REPO) /\ b \in DOMAIN branches[CLOUD_REPO]) =>
               branches'[CLOUD_REPO][b] =
                   branches[CLOUD_REPO][b] \o
                   FirstOccurrences(NotIn(branches[LOCAL_REPO][b],
                                          Range(branches[CLOUD_REPO][b])))]_vars

\* after a push the cloud's main holds an entry the local main lacks, then
\* the local entries: the histories had diverged and were united
C2_Witness ==
    /\ out.op = "push" /\ out.res = "Pushed"
    /\ Len(branches[CLOUD_REPO][main]) = 2
    /\ Len(branches[LOCAL_REPO][main]) = 2
    /\ HasRepeat(branches[LOCAL_REPO][main])
    /\ branches[CLOUD_REPO][main][1] \notin Range(branches[LOCAL_REPO][main])
    /\ branches[CLOUD_REPO][main][2] = branches[LOCAL_REPO][main][1]

\* C3 as stated: a successful push to a cloud location that does not exist
\* makes the cloud Branch Store equal to the local Branch Store.
C3_FreshCloudEqualsLocal ==
    [][(Did("push", "Pushed") /\ "dir" \notin fs[CLOUD_REPO])
         => branches'[CLOUD_REPO] = branches[LOCAL_REPO]]_vars

\* C3 amended: a successful push to a cloud location that does not exist
\* gives the cloud exactly the local branch names; every branch but main
\* gets the local list verbatim, and main, which the fresh cloud already
\* holds as an empty list, gets the local main list with each digest kept
\* once, at its first occurrence.
C3_FreshCloudUnion ==
    [][(Did("push", "Pushed") /\ "dir" \notin fs[CLOUD_REPO]) =>
         /\ DOMAIN branches'[CLOUD_REPO] = DOMAIN branches[LOCAL_REPO]
         /\ \A b \in DOMAIN branches[LOCAL_REPO] :
               branches'[CLOUD_REPO][b] =
                   IF b = main THEN FirstOccurrences(branches[LOCAL_REPO][b])
                   ELSE branches[LOCAL_REPO][b]]_vars

\* the cloud after a push that created it: dev was copied with its repeated
\* digest, main lost the repetition
C3_Witness ==
    /\ out.op = "push" /\ out.res = "Pushed"
    /\ DOMAIN branches[CLOUD_REPO] = {main, dev}
    /\ HasRepeat(branches[LOCAL_REPO][main])
    /\ HasRepeat(branches[CLOUD_REPO][dev])
    /\ branches[CLOUD_REPO][dev] = branches[LOCAL_REPO][dev]
    /\ branches[CLOUD_REPO][main] = FirstOccurrences(branches[LOCAL_REPO][main])
    /\ HEAD[CLOUD_REPO] = head_line(main)

\* HEAD and branches.json exist and HEAD resolves to a key of branches.json
HeadResolves(r) ==
    /\ HasBranches(r) /\ "HEAD" \in fs[r]
    /\ get_current_branch(r) \in DOMAIN branches[r]

\* HEAD and branches.json exist and HEAD resolves to no key of branches.json
Dangling(r) ==
    /\ HasBranches(r) /\ "HEAD" \in fs[r]
    /\ get_current_branch(r) \notin DOMAIN branches[r]

\* C4: in every state reached by init, add, commit, create_branch and
\* switch_branch calls, the name that get_current_branch resolves from HEAD
\* is a key of the Branch Store.
C4_HeadNamesBranch == ~Dangling(LOCAL_REPO)

\* C5: right after create_branch(name) the list of name equals the active
\* branch's list (which create_branch leaves as it was), and a commit changes
\* the list of no branch but the active one, so the two histories are
\* independent from then on.
C5_CopySemantics ==
    [][/\ Did("create_branch", "Created") =>
            /\ branches'[LOCAL_REPO][out'.arg] =
                   branches[LOCAL_REPO][get_current_branch(LOCAL_REPO)]
            /\ branches'[LOCAL_REPO][get_current_branch(LOCAL_REPO)] =
                   branches[LOCAL_REPO][get_current_branch(LOCAL_REPO)]
       /\ Did("commit", "Committed") =>
            \A b \in DOMAIN branches[LOCAL_REPO] \ {get_current_branch(LOCAL_REPO)} :
                branches'[LOCAL_REPO][b] = branches[LOCAL_REPO][b]]_vars

\* dev was created from main when main had one commit; main has since had a
\* second commit and dev still has the one
C5_Witness ==
    /\ out.op = "commit" /\ out.res = "Committed"
    /\ HeadResolves(LOCAL_REPO) /\ get_current_branch(LOCAL_REPO) = main
    /\ DOMAIN branches[LOCAL_REPO] = {main, dev}
    /\ Len(branches[LOCAL_REPO][main]) = 2
    /\ ~HasRepeat(branches[LOCAL_REPO][main])
    /\ branches[LOCAL_REPO][dev] = <<branches[LOCAL_REPO][main][1]>>

\* C6: switch_branch(name) makes HEAD name exactly name when name is a key of
\* the Branch Store and leaves HEAD unchanged otherwise; the Branch Store,
\* the index and the object set are unchanged.
C6_SwitchBranch ==
    [][(now' = now /\ out'.op = "switch_branch" /\ HasBranches(LOCAL_REPO)) =>
         /\ IF out'.arg \in DOMAIN branches[LOCAL_REPO]
            THEN get_current_branch(LOCAL_REPO)' = out'.arg
            ELSE HEAD' = HEAD
         /\ branches' = branches /\ index' = index /\ objects' = objects]_vars

\* C7: a commit made when index.json exists and HEAD names an existing
\* branch appends exactly one digest to the end of the active branch's list
\* and leaves every other list, HEAD and the index unchanged.
C7_CommitAppendsOne ==
    [][(/\ now' = now /\ out'.op = "commit"
        /\ "index.json" \in fs[LOCAL_REPO] /\ HeadResolves(LOCAL_REPO)) =>
         LET cur == get_current_branch(LOCAL_REPO)
             old == branches[LOCAL_REPO][cur]
             new == branches'[LOCAL_REPO][cur]
         IN  /\ out'.res = "Committed"
             /\ DOMAIN branches'[LOCAL_REPO] = DOMAIN branches[LOCAL_REPO]
             /\ Len(new) = Len(old) + 1
             /\ SubSeq(new, 1, Len(old)) = old
             /\ \A b \in DOMAIN branches[LOCAL_REPO] \ {cur} :
                   branches'[LOCAL_REPO][b] = branches[LOCAL_REPO][b]
             /\ branches'[CLOUD_REPO] = branches[CLOUD_REPO]
             /\ HEAD' = HEAD /\ index' = index]_vars

\* a commit has just been made on dev, which is now longer than main
C7_Witness ==
    /\ out.op = "commit" /\ out.res = "Committed"
    /\ HeadResolves(LOCAL_REPO) /\ get_current_branch(LOCAL_REPO) = dev
    /\ Len(branches[LOCAL_REPO][dev]) = 2
    /\ Len(branches[LOCAL_REPO][main]) = 1

\* the stored objects that are commit records, and their fields
IsCommit(sha1) == Len(sha1[2]) = 6
MessageOf(sha1) == sha1[2][2]
TimestampOf(sha1) == sha1[2][4]
FilesOf(sha1) == sha1[2][6]

\* a serialized dict as a mapping
Keys(d) == {d[i][1] : i \in 1..Len(d)}
AsMap(d) == [k \in Keys(d) |-> d[CHOOSE i \in 1..Len(d) : d[i][1] = k][2]]

\* in every branch list a later commit holds every path of an earlier one
Cumulative ==
    \A r \in Repos : \A b \in DOMAIN branches[r] :
        \A i, j \in 1..Len(branches[r][b]) :
            i < j => Keys(FilesOf(branches[r][b][i])) \subseteq
                     Keys(FilesOf(branches[r][b][j]))

\* C8: the files of a commit are the whole index at commit time, commit
\* leaves the index as it is, and an add only sets its own path in the
\* index (overwriting an earlier add of that path), so a path staged before
\* an earlier commit is in every later commit.
C8_CumulativeIndex ==
    [][LET r == out'.repo
       IN  /\ Did("commit", "Committed") =>
                LET new == branches'[r][get_current_branch(r)]
                IN  /\ AsMap(FilesOf(new[Len(new)])) = AsMap(index[r])
                    /\ index' = index
           /\ Did("add", "Added") =>
                /\ Keys(index'[r]) = Keys(index[r]) \cup {out'.arg}
                /\ \A k \in Keys(index[r]) \ {out'.arg} :
                      AsMap(index'[r])[k] = AsMap(index[r])[k]
                /\ AsMap(index'[r])[out'.arg] \in objects'[r]
           /\ Cumulative']_vars

\* two commits on local main: the first recorded a.txt alone, the second
\* records b.txt and a.txt, whose digest a later add had overwritten
C8_Witness ==
    /\ out.op = "commit" /\ out.res = "Committed" /\ out.repo = LOCAL_REPO
    /\ HasBranches(LOCAL_REPO)
    /\ Len(branches[LOCAL_REPO][main]) = 2
    /\ LET c1 == branches[LOCAL_REPO][main][1]
           c2 == branches[LOCAL_REPO][main][2]
       IN  /\ Keys(FilesOf(c1)) = {"a.txt"}
           /\ Keys(FilesOf(c2)) = {"a.txt", "b.txt"}
           /\ AsMap(FilesOf(c2))["a.txt"] # AsMap(FilesOf(c1))["a.txt"]
           /\ FilesOf(c2) = index[LOCAL_REPO]

\* the digests in the branch lists of r
Committed(r) == UNION {Range(branches[r][b]) : b \in DOMAIN branches[r]}

\* C9: two commit records with the same message, the same timestamp and the
\* same path -> digest mapping have the same digest, whatever the order in
\* which the paths were staged.
C9_DigestOfMapping ==
    \A d1, d2 \in UNION {Committed(r) : r \in Repos} :
        (/\ MessageOf(d1) = MessageOf(d2)
         /\ TimestampOf(d1) = TimestampOf(d2)
         /\ AsMap(FilesOf(d1)) = AsMap(FilesOf(d2))) => d1 = d2

\* C10 as stated: when HEAD names a branch that is absent from the Branch
\* Store, commit ends in an error and leaves the Branch Store unchanged.
C10_DanglingHeadIsError ==
    [][(now' = now /\ out'.op = "commit" /\ Dangling(LOCAL_REPO)) =>
         /\ out'.res \in {"KeyError", "FileNotFoundError"}
         /\ branches' = branches]_vars

\* C10 amended: when HEAD names a branch that is absent from the Branch
\* Store, commit leaves the Branch Store unchanged; it ends in an error
\* (KeyError) when a staging index exists, and reports "No changes to
\* commit" without an error when none exists.
C10_DanglingHeadKeepsStore ==
    [][(now' = now /\ out'.op = "commit" /\ Dangling(LOCAL_REPO)) =>
         /\ out'.res = IF "index.json" \in fs[LOCAL_REPO] THEN "KeyError"
                       ELSE "No changes to commit"
         /\ branches' = branches]_vars

\* a commit has just raised KeyError: HEAD names "dev", the Branch Store
\* holds "dev " and main, and the commit record is in the object store
C10_Witness ==
    /\ out.op = "commit" /\ out.res = "KeyError"
    /\ Dangling(LOCAL_REPO)
    /\ get_current_branch(LOCAL_REPO) = dev
    /\ <<"dev", " ">> \in DOMAIN branches[LOCAL_REPO]
    /\ \E d \in objects[LOCAL_REPO] : IsCommit(d)

\* C11: a commit on a repository without index.json changes nothing: the
\* Branch Store, HEAD, the object set and the files on disk are as before,
\* and the call reports "No changes to commit".
C11_NothingToCommit ==
    [][(/\ now' = now /\ out'.op = "commit"
        /\ "index.json" \notin fs[LOCAL_REPO]) =>
         /\ out'.res = "No changes to commit"
         /\ branches' = branches /\ HEAD' = HEAD /\ objects' = objects
         /\ index' = index /\ fs' = fs]_vars

\* commit has just reported "No changes to commit" on an initialized
\* repository with two branches, no index and no object
C11_Witness ==
    /\ out.op = "commit" /\ out.res = "No changes to commit"
    /\ "index.json" \notin fs[LOCAL_REPO]
    /\ HeadResolves(LOCAL_REPO)
    /\ DOMAIN branches[LOCAL_REPO] = {main, dev}
    /\ objects[LOCAL_REPO] = {}

\* C12: whatever the remote location was before (absent, a directory without
\* repository structure, an initialized repository), a push from a local
\* repository completes without error and leaves a remote repository whose
\* Branch Store holds main and every local branch name.
C12_PushAlwaysCompletes ==
    [][(now' = now /\ out'.op = "push" /\ HasBranches(LOCAL_REPO)) =>
         /\ out'.res = "Pushed"
         /\ HasBranches(CLOUD_REPO)'
         /\ {main} \cup DOMAIN branches[LOCAL_REPO]
                \subseteq DOMAIN branches'[CLOUD_REPO]]_vars

\* s is the beginning of t
IsPrefix(s, t) == Len(s) <= Len(t) /\ SubSeq(t, 1, Len(s)) = s

\* C13: in every step other than a create_branch of a name that is already a
\* branch, no local branch name disappears and the list each local branch had
\* is a prefix of the list it has afterwards.
C13_AppendOnly ==
    [][(/\ now' = now
        /\ ~(/\ out'.op = "create_branch"
             /\ HasBranches(LOCAL_REPO)
             /\ out'.arg \in DOMAIN branches[LOCAL_REPO])) =>
         \A b \in DOMAIN branches[LOCAL_REPO] :
            /\ b \in DOMAIN branches'[LOCAL_REPO]
            /\ IsPrefix(branches[LOCAL_REPO][b], branches'[LOCAL_REPO][b])]_vars

\* a second commit has just been appended to main while dev keeps the one
\* commit it was created with
C13_Witness ==
    /\ out.op = "commit" /\ out.res = "Committed"
    /\ HeadResolves(LOCAL_REPO) /\ get_current_branch(LOCAL_REPO) = main
    /\ DOMAIN branches[LOCAL_REPO] = {main, dev}
    /\ Len(branches[LOCAL_REPO][main]) = 2
    /\ Len(branches[LOCAL_REPO][dev]) = 1
    /\ IsPrefix(branches[LOCAL_REPO][dev], branches[LOCAL_REPO][main])
    /\ HasRepeat(branches[LOCAL_REPO][main])

\* C14: every digest that is a value of the index of a repository is in the
\* object store of that repository, and every digest in a branch list of the
\* local repository is in the local object store.
C14_WriteBeforeReference ==
    /\ \A r \in Repos : \A i \in 1..Len(index[r]) : index[r][i][2] \in objects[r]
    /\ Committed(LOCAL_REPO) \subseteq objects[LOCAL_REPO]

\* both repositories have staged a file and the local one has committed and
\* pushed: the local lists name stored objects
C14_Witness ==
    /\ index[LOCAL_REPO] # <<>> /\ index[CLOUD_REPO] # <<>>
    /\ out.op = "push" /\ out.res = "Pushed"
    /\ DOMAIN branches[LOCAL_REPO] = {main, dev}
    /\ Len(branches[LOCAL_REPO][main]) = 2
    /\ branches[LOCAL_REPO][dev] # <<>>
    /\ Cardinality(objects[LOCAL_REPO]) >= 3

\* C15 as stated: push adds no object to the remote object store, and after
\* a push of a local repository with at least one commit the remote Branch
\* Store names a digest that the remote object store lacks.
C15_PushedDigestsAbsent ==
    [][Did("push", "Pushed") =>
         /\ objects' = objects
         /\ Committed(LOCAL_REPO) # {} =>
               \E d \in Committed(CLOUD_REPO)' : d \notin objects'[CLOUD_REPO]]_vars

\* C15 amended: push adds no object to the remote object store; after a
\* push the remote Branch Store names every local digest, and it names a
\* digest that the remote object store lacks whenever the local lists hold a
\* digest that the remote had not stored itself before the push.
C15_PushCopiesNoObject ==
    [][Did("push", "Pushed") =>
         /\ objects' = objects
         /\ Committed(LOCAL_REPO) \subseteq Committed(CLOUD_REPO)'
         /\ Committed(LOCAL_REPO) \ objects[CLOUD_REPO] # {} =>
               \E d \in Committed(CLOUD_REPO)' : d \notin objects'[CLOUD_REPO]]_vars

\* after a push the cloud's main names one digest the cloud stored itself
\* and one digest that only the local object store holds
C15_Witness ==
    /\ out.op = "push" /\ out.res = "Pushed"
    /\ HasBranches(CLOUD_REPO)
    /\ \E d \in Range(branches[CLOUD_REPO][main]) :
          d \in objects[LOCAL_REPO] /\ d \notin objects[CLOUD_REPO]
    /\ \E d \in Range(branches[CLOUD_REPO][main]) :
          d \in objects[LOCAL_REPO] /\ d \in objects[CLOUD_REPO]

\* both processes have finished a commit that loaded the same branches.json
BothReadBeforeWrite ==
    /\ \A p \in Procs : procs[p].pc = "done"
    /\ procs[1].branches = procs[2].branches
    /\ procs[1].current_branch = procs[2].current_branch

\* C16: when two processes commit to the same repository and both load
\* branches.json before either writes it, both commits complete and the
\* active branch's list ends up with exactly one new digest, the one of the
\* process that wrote last: the other update is lost.
C16_LastWriterWins ==
    BothReadBeforeWrite =>
        LET cur == procs[1].current_branch
            old == procs[1].branches[cur]
            new == branches[LOCAL_REPO][cur]
        IN  /\ Len(new) = Len(old) + 1
            /\ IsPrefix(old, new)
            /\ new[Len(new)] \in {procs[p].sha1 : p \in Procs}

\* both commits have completed with different digests, both commit records
\* are stored, and main lacks one of the two digests
C16_Witness ==
    /\ BothReadBeforeWrite
    /\ out.op = "commit" /\ out.res = "Committed"
    /\ procs[1].sha1 # procs[2].sha1
    /\ \A p \in Procs : procs[p].sha1 \in objects[LOCAL_REPO]
    /\ \E p \in Procs : procs[p].sha1 \notin Range(branches[LOCAL_REPO][main])
    /\ \E p \in Procs : procs[p].sha1 \in Range(branches[LOCAL_REPO][main])

\* C17: init on a repository whose .git exists changes nothing: the files on
\* disk, the Branch Store, HEAD, the index and the object set are as before.
C17_ReinitChangesNothing ==
    [][(now' = now /\ out'.op = "init" /\ ".git" \in fs[out'.repo]) =>
         /\ fs' = fs /\ HEAD' = HEAD /\ branches' = branches
         /\ index' = index /\ objects' = objects]_vars

\* init has just been called on a local repository that is on dev, has a
\* commit on dev and a staged file
C17_Witness ==
    /\ out.op = "init" /\ out.res = "already exists" /\ out.repo = LOCAL_REPO
    /\ HEAD[LOCAL_REPO] = head_line(dev)
    /\ DOMAIN branches[LOCAL_REPO] = {main, dev}
    /\ branches[LOCAL_REPO][dev] # <<>>
    /\ index[LOCAL_REPO] # <<>>

\* C18: no step removes a stored object; an add stores exactly the digest it
\* records in the index and a commit stores at most one object; an add that
\* repeats the previous add with the same payload leaves the object set as
\* it was.
C18_StoreIdempotent ==
    [][/\ \A r \in Repos : objects[r] \subseteq objects'[r]
       /\ Did("add", "Added") =>
            LET r == out'.repo
                sha1 == AsMap(index'[r])[out'.arg]
            IN  /\ objects'[r] = objects[r] \cup {sha1}
                /\ (/\ out.op = "add" /\ out.res = "Added"
                    /\ out.repo = r /\ out.arg = out'.arg
                    /\ AsMap(index[r])[out.arg] = sha1) => objects' = objects
       /\ (now' = now /\ out'.op = "commit") =>
            Cardinality(objects'[out'.repo] \ objects[out'.repo]) <= 1]_vars

\* a.txt has been added again with the content a commit already recorded,
\* after an add with another content: both blobs and the commit record are
\* stored
C18_Witness ==
    /\ out.op = "add" /\ out.res = "Added" /\ out.arg = "a.txt"
    /\ HasBranches(LOCAL_REPO)
    /\ Len(branches[LOCAL_REPO][main]) = 1
    /\ FilesOf(branches[LOCAL_REPO][main][1]) = index[LOCAL_REPO]
    /\ {hash_object(<<"hello">>), hash_object(<<"world">>)}
           \subseteq objects[LOCAL_REPO]
    /\ Cardinality(objects[LOCAL_REPO]) = 3

\* C19: push leaves the local repository as it was, leaves the index and the
\* objects of the remote as they were, leaves the remote HEAD as it was when
\* the remote directory existed, and leaves every remote branch whose name
\* is not a local branch name in place with its list.
C19_PushFrame ==
    [][(now' = now /\ out'.op = "push") =>
         /\ fs'[LOCAL_REPO] = fs[LOCAL_REPO]
         /\ branches'[LOCAL_REPO] = branches[LOCAL_REPO]
         /\ HEAD'[LOCAL_REPO] = HEAD[LOCAL_REPO]
         /\ index' = index /\ objects' = objects
         /\ "dir" \in fs[CLOUD_REPO] => HEAD'[CLOUD_REPO] = HEAD[CLOUD_REPO]
         /\ \A b \in DOMAIN branches[CLOUD_REPO] \ DOMAIN branches[LOCAL_REPO] :
               /\ b \in DOMAIN branches'[CLOUD_REPO]
               /\ branches'[CLOUD_REPO][b] = branches[CLOUD_REPO][b]]_vars

\* after a push the cloud still has its own branch dev, which the local
\* repository lacks, and its main holds the local commits
C19_Witness ==
    /\ out.op = "push" /\ out.res = "Pushed"
    /\ DOMAIN branches[LOCAL_REPO] = {main}
    /\ DOMAIN branches[CLOUD_REPO] = {main, dev}
    /\ branches[CLOUD_REPO][dev] # <<>>
    /\ branches[LOCAL_REPO][main] # <<>>
    /\ Range(branches[LOCAL_REPO][main]) \subseteq Range(branches[CLOUD_REPO][main])
    /\ Range(branches[CLOUD_REPO][dev]) \cap Range(branches[LOCAL_REPO][main]) = {}

\* C20: a push leaves every remote branch that had no repeated digest
\* without a repeated digest, also when the local list of that branch holds
\* a digest more than once.
C20_PushAddsNoRepeat ==
    [][Did("push", "Pushed") =>
         \A b \in DOMAIN branches[CLOUD_REPO] :
            (HasBranches(CLOUD_REPO) /\ ~HasRepeat(branches[CLOUD_REPO][b]))
               => ~HasRepeat(branches'[CLOUD_REPO][b])]_vars

\* the local dev holds one digest twice and the cloud's dev, after the push,
\* holds it once
C20_Witness ==
    /\ out.op = "push" /\ out.res = "Pushed"
    /\ dev \in DOMAIN branches[LOCAL_REPO] /\ dev \in DOMAIN branches[CLOUD_REPO]
    /\ Len(branches[LOCAL_REPO][dev]) = 2
    /\ HasRepeat(branches[LOCAL_REPO][dev])
    /\ Len(branches[CLOUD_REPO][dev]) = 1
    /\ branches[CLOUD_REPO][dev][1] = branches[LOCAL_REPO][dev][1]
====
